---------------------------- MODULE Spec2Model ----------------------------
(***************************************************************************)
(* Model of src/Fernandez_MP3.py, the Metro Manila traffic incident        *)
(* dashboard: one Streamlit script that loads and cleans a directory of    *)
(* CSV files (load_and_clean_data, memoised by st.cache_data), reads two   *)
(* sidebar widgets, filters the unified table and computes the metrics     *)
(* and the aggregate views.                                                *)
(*                                                                         *)
(* A cell of a table is a tuple: the empty tuple NaN is pandas' missing    *)
(* value (NaN / NaT / None), any other tuple is a value.                   *)
(***************************************************************************)
EXTENDS Integers, Sequences, FiniteSets, TLC

---------------------------------------------------------------------------
(* Bounds of the model *)

\* files in the downloaded directory (Spec)
MaxFiles == 3
\* rows in the whole directory (SpecRows)
MaxRows == 2
\* rows of the one file of a session (SpecSession)
MaxSessionRows == 3
\* largest hour number a time text is written with (SpecHour)
MaxHourText == 13
\* distinct Involved values of a table (SpecRank)
MaxKeys == 11
\* sessions running the script in one process (SpecCache)
MaxSessions == 2
\* successive contents of the downloaded dataset (SpecCache)
MaxVersions == 2
\* script runs started in the process (SpecCache)
MaxScriptRuns == 3

---------------------------------------------------------------------------
(* Cells and texts *)

NaN == << >>

IsNa(c) == c = NaN

Range(s) == {s[i] : i \in DOMAIN s}

\* A text is <<letters, case, padded>>: case is "lower", "upper" or "title",
\* padded says whether white space surrounds the letters.
Text(letters, case, padded) == <<letters, case, padded>>

\* str.title(): every word capitalised; the letters and the padding stay.
Title(t) == <<t[1], "title", t[3]>>

\* str.strip(): the surrounding white space goes.
Strip(t) == <<t[1], t[2], FALSE>>

Unknown == Text("unknown", "title", FALSE)

\* Python's order on the city strings the model uses (sorted() at line 99).
CityOrder == <<"makati", "pasig", "unknown">>

CityRank(c) == CHOOSE i \in DOMAIN CityOrder : CityOrder[i] = c[1]

---------------------------------------------------------------------------
(* Dates: pd.to_datetime(df['Date'], errors='coerce') *)

\* A date text is <<month, day, hour>> as written in the file; it may name a
\* day no calendar has. One year is modelled.
DaysIn(mon) == IF mon = 2 THEN 28
               ELSE IF mon \in {4, 6, 9, 11} THEN 30 ELSE 31

DateParses(t) == /\ Len(t) = 3
                 /\ t[1] \in 1..12
                 /\ t[2] \in 1..DaysIn(t[1])
                 /\ t[3] \in 0..23

\* The Timestamp <<month, day, hour>>, or NaT for what does not parse.
ToDatetime(t) == IF DateParses(t) THEN t ELSE NaN

\* Timestamp.date(): the calendar date <<month, day>>.
DateOf(ts) == <<ts[1], ts[2]>>

\* Order of calendar dates.
DateLeq(a, b) == a[1] < b[1] \/ (a[1] = b[1] /\ a[2] <= b[2])

\* .dt.to_period('M').astype(str): the month bucket.
MonthYear(ts) == <<ts[1]>>

---------------------------------------------------------------------------
(* Times: lines 65-66 *)

\* A time text is <<hour, minute, meridiem>> as written ("2:15 PM"),
\* <<"garbage">> for any other text, NaN for a missing cell.

\* strptime's %I:%M %p: hour 1..12, minute 0..59, AM or PM.
TimeMatches(t) == /\ Len(t) = 3
                  /\ t[1] \in 1..12
                  /\ t[2] \in 0..59
                  /\ t[3] \in {"AM", "PM"}

\* ParseTime12 adding twelve to every PM hour, noon included
ParseTime12NoWrap(t) ==
    IF TimeMatches(t)
    THEN << t[1] + (IF t[3] = "PM" THEN 12 ELSE 0), t[2], 0 >>
    ELSE NaN

\* pd.to_datetime(..., format='%I:%M %p', errors='coerce').dt.time:
\* the wall-clock time <<hour24, minute, second>>, or NaT.
ParseTime12(t) ==
    IF TimeMatches(t)
    THEN << (t[1] % 12) + (IF t[3] = "PM" THEN 12 ELSE 0), t[2], 0 >>
    ELSE NaN

\* astype(str) of a datetime.time: the digits of "HH:MM:SS"; of NaT: "NaT".
TimeStr(tm) ==
    IF IsNa(tm) THEN <<"NaT">>
    ELSE << tm[1] \div 10, tm[1] % 10, tm[2] \div 10, tm[2] % 10,
            tm[3] \div 10, tm[3] % 10 >>

\* pd.to_datetime(text, errors='coerce').dt.hour: the hour of "HH:MM:SS"
\* read back from its digits, NaN for a text that is no time.
HourFromStr(s) ==
    IF Len(s) # 6 THEN NaN
    ELSE LET h  == 10 * s[1] + s[2]
             mi == 10 * s[3] + s[4]
             se == 10 * s[5] + s[6]
         IN IF h \in 0..23 /\ mi \in 0..59 /\ se \in 0..59
            THEN <<h>> ELSE NaN

---------------------------------------------------------------------------
(* Tables *)

RequiredCols == {"Date", "Latitude", "Longitude"}
OptionalCols == {"City", "Time", "Involved", "Type"}
AllCols == RequiredCols \cup OptionalCols

\* A row holds a cell for every column of the union; a column its file
\* does not carry is NaN (pd.concat fills it so). id is not a column: it
\* names the file and the line the row comes from, for the properties.
RawRow(city, date, time, involved, type, lat, lon) ==
    [City |-> city, Date |-> date, Time |-> time, Involved |-> involved,
     Type |-> type, Latitude |-> lat, Longitude |-> lon,
     Hour |-> NaN, Month_Year |-> NaN, Day_Name |-> NaN, id |-> NaN]

EmptyDf == [cols |-> {}, rows |-> << >>]

MapRows(rows, F(_)) == [i \in DOMAIN rows |-> F(rows[i])]

\* pd.read_csv(file, encoding='unicode_escape'): the file's table.
ReadCsv(file) == [cols |-> file.cols, rows |-> file.rows]

RECURSIVE Concat(_)
\* pd.concat(df_list, ignore_index=True): the union of the columns, the
\* rows in list order.
Concat(df_list) ==
    IF df_list = << >> THEN EmptyDf
    ELSE LET rest == Concat(Tail(df_list))
         IN [cols |-> Head(df_list).cols \cup rest.cols,
             rows |-> Head(df_list).rows \o rest.rows]


---------------------------------------------------------------------------
(* load_and_clean_data: lines 18-78 *)

\* os.listdir(path) filtered by f.endswith('.csv'): line 26
ListCsv(dir) == SelectSeq(dir, LAMBDA f : f.csv)

Names(files) == [i \in DOMAIN files |-> files[i].name]

\* The loop of lines 34-40: the files pd.read_csv reads, in order.
ReadFiles(files) == SelectSeq(files, LAMBDA f : f.parses)

\* The files the loop warns about (st.warning, line 40), in order.
Unreadable(files) == SelectSeq(files, LAMBDA f : ~f.parses)

\* line 58: fillna('Unknown').astype(str).str.title().str.strip()
FixCity(c) == Strip(Title(IF IsNa(c) THEN Unknown ELSE c))

CleanCity(d) ==
    IF "City" \in d.cols
    THEN [d EXCEPT !.rows = MapRows(@, LAMBDA r : [r EXCEPT !.City = FixCity(@)])]
    ELSE d

\* lines 61-62: parse the dates, drop the rows whose date is NaT
CleanDate(d) ==
    LET parsed == MapRows(d.rows, LAMBDA r : [r EXCEPT !.Date = ToDatetime(@)])
    IN [d EXCEPT !.rows = SelectSeq(parsed, LAMBDA r : ~IsNa(r.Date))]

\* lines 65-66: no row is dropped
CleanTime(d) ==
    [cols |-> d.cols \cup {"Hour"},
     rows |-> MapRows(d.rows, LAMBDA r :
                  [r EXCEPT !.Time = ParseTime12(r.Time),
                            !.Hour = HourFromStr(TimeStr(ParseTime12(r.Time)))])]

\* line 70: fillna("Unknown").astype(str)
FixInvolved(v) == IF IsNa(v) THEN Unknown ELSE v

CleanInvolved(d) ==
    IF "Involved" \in d.cols
    THEN [d EXCEPT !.rows = MapRows(@, LAMBDA r : [r EXCEPT !.Involved = FixInvolved(@)])]
    ELSE d

\* HasCoords looking at the latitude alone
HasLatitude(r) == ~IsNa(r.Latitude)

\* line 73: dropna(subset=['Latitude', 'Longitude'])
HasCoords(r) == ~IsNa(r.Latitude) /\ ~IsNa(r.Longitude)

DropNoCoords(d) == [d EXCEPT !.rows = SelectSeq(@, HasCoords)]

\* line 76
AddMonthYear(d) ==
    [cols |-> d.cols \cup {"Month_Year"},
     rows |-> MapRows(d.rows, LAMBDA r : [r EXCEPT !.Month_Year = MonthYear(r.Date)])]

\* What a call of the function body ends in: "ok" (a table is returned),
\* "stop" (st.error and st.stop) or "raise" (an uncaught exception).
Outcome(status, msg, csv, read, warned, d) ==
    [status |-> status, msg |-> msg, all_csv_files |-> csv,
     df_list |-> read, warnings |-> warned, df |-> d]

\* lines 52-78: a column the code indexes without a guard raises KeyError.
CleanData(csv, read, warned, d) ==
    IF "Date" \notin d.cols
    THEN Outcome("raise", "KeyError: 'Date'", csv, read, warned, EmptyDf)
    ELSE IF "Time" \notin d.cols
    THEN Outcome("raise", "KeyError: 'Time'", csv, read, warned, EmptyDf)
    ELSE IF ~({"Latitude", "Longitude"} \subseteq d.cols)
    THEN Outcome("raise", "KeyError: ['Latitude', 'Longitude']", csv, read,
                 warned, EmptyDf)
    ELSE Outcome("ok", "", csv, read, warned,
                 AddMonthYear(DropNoCoords(CleanInvolved(CleanTime(
                     CleanDate(CleanCity(d)))))))

\* lines 20-50. st.stop() raises StopException, a BaseException that the
\* except clause of line 48 does not catch; any other exception of the
\* download or the listing is caught there and stops the run as well.
LoadBody(ds) ==
    IF ~ds.downloadOk
    THEN Outcome("stop", "Error loading data", << >>, << >>, << >>, EmptyDf)
    ELSE LET all_csv_files == ListCsv(ds.dir)
             df_list == ReadFiles(all_csv_files)
             warned == Names(Unreadable(all_csv_files))
         IN IF all_csv_files = << >>
            THEN Outcome("stop", "No CSV files found in the downloaded dataset.",
                         << >>, << >>, << >>, EmptyDf)
            ELSE IF df_list = << >>
            THEN Outcome("stop", "No valid data files could be read.",
                         Names(all_csv_files), << >>, warned, EmptyDf)
            ELSE CleanData(Names(all_csv_files), Names(df_list), warned,
                           Concat(MapRows(df_list, ReadCsv)))


---------------------------------------------------------------------------
(* Sidebar and filter: lines 83-120 *)

Min(a, b) == IF a <= b THEN a ELSE b

RowSet(d) == Range(d.rows)

\* df['Date'].min().date() and df['Date'].max().date(): lines 88-89
MinDate(d) ==
    CHOOSE a \in {DateOf(r.Date) : r \in RowSet(d)} :
        \A b \in {DateOf(r.Date) : r \in RowSet(d)} : DateLeq(a, b)

MaxDate(d) ==
    CHOOSE a \in {DateOf(r.Date) : r \in RowSet(d)} :
        \A b \in {DateOf(r.Date) : r \in RowSet(d)} : DateLeq(b, a)

\* The calendar dates the date picker offers (min_value, max_value).
DatesBetween(lo, hi) ==
    {dt \in (1..12) \X (1..31) :
        dt[2] <= DaysIn(dt[1]) /\ DateLeq(lo, dt) /\ DateLeq(dt, hi)}

\* What st.date_input can return for a range picker: nothing, the first
\* date of a range being picked, or a range.
DateRanges(lo, hi) ==
    {<< >>}
    \cup {<<a>> : a \in DatesBetween(lo, hi)}
    \cup {dr \in DatesBetween(lo, hi) \X DatesBetween(lo, hi) :
              DateLeq(dr[1], dr[2])}

RECURSIVE SortInts(_)
\* sorted(): ascending
SortInts(S) ==
    IF S = {} THEN << >>
    ELSE LET m == CHOOSE x \in S : \A y \in S : x <= y
         IN <<m>> \o SortInts(S \ {m})

\* sorted(df['City'].unique().tolist()): line 99
SortedCities(d) ==
    LET ranks == SortInts({CityRank(r.City) : r \in RowSet(d)})
    IN [i \in DOMAIN ranks |->
           CHOOSE c \in {r.City : r \in RowSet(d)} : CityRank(c) = ranks[i]]

\* default=cities[:5]: line 100
DefaultCityCount == 5

DefaultCities(cs) == SubSeq(cs, 1, Min(DefaultCityCount, Len(cs)))

\* EndDate leaving a range of one date open to the last date
EndDateOpen(dr, lo, hi) == IF Len(dr) = 2 THEN dr[2] ELSE hi

\* lines 103-112
StartDate(dr, lo, hi) == IF Len(dr) = 2 THEN dr[1]
                         ELSE IF Len(dr) = 1 THEN dr[1] ELSE lo

EndDate(dr, lo, hi) == IF Len(dr) = 2 THEN dr[2]
                       ELSE IF Len(dr) = 1 THEN dr[1] ELSE hi

\* Mask with the end date left out
MaskEndExclusive(r, lo, hi, sel) ==
    /\ DateLeq(lo, DateOf(r.Date))
    /\ DateLeq(DateOf(r.Date), hi) /\ DateOf(r.Date) # hi
    /\ r.City \in sel

\* lines 115-119
Mask(r, lo, hi, sel) ==
    /\ DateLeq(lo, DateOf(r.Date))
    /\ DateLeq(DateOf(r.Date), hi)
    /\ r.City \in sel

\* df.loc[mask]: line 120
ApplyMask(d, lo, hi, sel) ==
    [d EXCEPT !.rows = SelectSeq(@, LAMBDA r : Mask(r, lo, hi, sel))]

---------------------------------------------------------------------------
(* Top metrics: lines 131-135 *)

\* the text "N/A"
NA == <<"N", "/", "A">>

Column(d, col) == [i \in DOMAIN d.rows |-> d.rows[i][col]]

Count(vals, v) == Cardinality({i \in DOMAIN vals : vals[i] = v})

\* Series.mode(): the values of highest frequency, missing values dropped.
Modes(vals) ==
    LET present == {v \in Range(vals) : ~IsNa(v)}
    IN {v \in present : \A w \in present : Count(vals, w) <= Count(vals, v)}

\* Python's order on the incident types the model uses.
TypeOrder == <<"collision", "stalled">>

TypeRank(t) == CHOOSE i \in DOMAIN TypeOrder : TypeOrder[i] = t[1]

\* mode()[0]: the modes come sorted, the first is the smallest.
FirstMode(vals, Rank(_)) ==
    CHOOSE v \in Modes(vals) : \A w \in Modes(vals) : Rank(v) <= Rank(w)

HourRank(h) == h[1]

\* line 132
TopCity(f) == IF f.rows # << >> THEN FirstMode(Column(f, "City"), CityRank) ELSE NA

\* line 133
TopIncident(f) ==
    IF f.rows # << >> /\ "Type" \in f.cols
    THEN FirstMode(Column(f, "Type"), TypeRank) ELSE NA

\* line 134
PeakHourVal(f) == IF f.rows # << >> THEN FirstMode(Column(f, "Hour"), HourRank) ELSE NA

\* line 135
PeakHourStr(v) == IF v # NA THEN <<v[1], ":00">> ELSE NA

\* MetricsRaise without the "if not filtered_df.empty" guards
MetricsRaiseUnguarded(f) ==
    \/ Modes(Column(f, "City")) = {}
    \/ "Type" \in f.cols /\ Modes(Column(f, "Type")) = {}
    \/ Modes(Column(f, "Hour")) = {}

\* mode()[0] of a column with no value present raises KeyError.
MetricsRaise(f) ==
    /\ f.rows # << >>
    /\ \/ Modes(Column(f, "City")) = {}
       \/ "Type" \in f.cols /\ Modes(Column(f, "Type")) = {}
       \/ Modes(Column(f, "Hour")) = {}

NoMetrics == [total_incidents |-> 0, top_city |-> NaN, top_incident |-> NaN,
              peak_hour_val |-> NaN, peak_hour_str |-> NaN]

TopMetricsOf(f) ==
    [total_incidents |-> Len(f.rows),
     top_city |-> TopCity(f),
     top_incident |-> TopIncident(f),
     peak_hour_val |-> PeakHourVal(f),
     peak_hour_str |-> PeakHourStr(PeakHourVal(f))]


---------------------------------------------------------------------------
(* Aggregate views: lines 174-235 *)

\* Series.value_counts() counts with a hash table that keeps the values in
\* first-encountered order.
RECURSIVE FirstSeen(_)
FirstSeen(vals) ==
    IF vals = << >> THEN << >>
    ELSE LET front == FirstSeen(SubSeq(vals, 1, Len(vals) - 1))
             v == vals[Len(vals)]
         IN IF v \in Range(front) THEN front ELSE Append(front, v)

ValueCounts(vals) ==
    LET keys == FirstSeen(vals)
    IN [i \in DOMAIN keys |-> <<keys[i], Count(vals, keys[i])>>]

\* e put behind every entry whose count is at least e's
InsertDesc(e, sorted) ==
    LET k == Cardinality({i \in DOMAIN sorted : sorted[i][2] >= e[2]})
    IN SubSeq(sorted, 1, k) \o <<e>> \o SubSeq(sorted, k + 1, Len(sorted))

RECURSIVE SortDesc(_)
\* sort_values(ascending=False) as a stable sort leaves it
SortDesc(entries) ==
    IF entries = << >> THEN << >>
    ELSE InsertDesc(entries[Len(entries)],
                    SortDesc(SubSeq(entries, 1, Len(entries) - 1)))

Swap(s, i) == [s EXCEPT ![i] = s[i + 1], ![i + 1] = s[i]]

\* sort_values sorts with numpy's default "quicksort", which is not stable:
\* entries of equal count come in an order the build decides. The orders
\* enumerated are the first-encountered one and those one exchange of two
\* neighbours of equal count away from it.
TieOrders(sorted) ==
    {sorted} \cup {Swap(sorted, i) : i \in {j \in 1..(Len(sorted) - 1) :
                                              sorted[j][2] = sorted[j + 1][2]}}

\* head(10): line 230
TopN == 10

HeadN(s) == SubSeq(s, 1, Min(TopN, Len(s)))

\* the rankings line 230 can produce
VehCounts(vals) == {HeadN(o) : o \in TieOrders(SortDesc(ValueCounts(vals)))}

\* days from 1 January to the timestamp's day (2023, whose 1 January is a
\* Sunday)
RECURSIVE DaysBefore(_)
DaysBefore(mon) == IF mon = 1 THEN 0 ELSE DaysIn(mon - 1) + DaysBefore(mon - 1)

days_order == <<"Monday", "Tuesday", "Wednesday", "Thursday", "Friday",
                "Saturday", "Sunday">>

\* .dt.day_name(): line 210
DayName(ts) == <<days_order[((DaysBefore(ts[1]) + ts[2] + 5) % 7) + 1]>>

WithDayName(f) ==
    [cols |-> f.cols \cup {"Day_Name"},
     rows |-> MapRows(f.rows, LAMBDA r : [r EXCEPT !.Day_Name = DayName(r.Date)])]

\* groupby('Month_Year').size(): the buckets ascending, each with its count
TrendData(f) ==
    LET months == SortInts({r.Month_Year[1] : r \in RowSet(f)})
    IN [i \in DOMAIN months |->
           <<months[i], Count(Column(f, "Month_Year"), <<months[i]>>)>>]

\* groupby sorts the day names as strings
DayNameOrder == <<"Friday", "Monday", "Saturday", "Sunday", "Thursday",
                  "Tuesday", "Wednesday">>

DayKey(r) == 24 * (CHOOSE i \in DOMAIN DayNameOrder : DayNameOrder[i] = r.Day_Name[1])
             + r.Hour[1]

\* groupby(['Day_Name', 'Hour']).size(): rows without an hour are left out
HeatmapData(f) ==
    LET timed == SelectSeq(f.rows, LAMBDA r : ~IsNa(r.Hour))
        keys == SortInts({DayKey(timed[i]) : i \in DOMAIN timed})
    IN [i \in DOMAIN keys |->
           LET r == CHOOSE x \in Range(timed) : DayKey(x) = keys[i]
           IN <<r.Day_Name, r.Hour,
                Cardinality({j \in DOMAIN timed : DayKey(timed[j]) = keys[i]})>>]

RECURSIVE Sum(_)
Sum(vals) == IF vals = << >> THEN 0 ELSE vals[1][1] + Sum(Tail(vals))

\* lines 178-190: the points and what the centre is the mean of
DensityMap(f) ==
    [points |-> [i \in DOMAIN f.rows |-> <<f.rows[i].Latitude, f.rows[i].Longitude>>],
     lat_sum |-> Sum(Column(f, "Latitude")),
     lon_sum |-> Sum(Column(f, "Longitude")),
     n |-> Len(f.rows)]

\* A view is NaN while it is not computed and <<value>> once it is.
NoViews == [map |-> NaN, info |-> FALSE, trend |-> NaN, heat |-> NaN, veh |-> NaN]


---------------------------------------------------------------------------
(* The state *)

VARIABLES
    dataset,          \* what kagglehub.dataset_download yields: downloadOk, dir
    cache,            \* st.cache_data's entry for load_and_clean_data
    first_run,        \* the session's first script run: widgets at defaults
    pc,               \* where the script run is
    exc,              \* the exception that ended the run, "" if none
    ingest,           \* how the call of line 81 ended
    df,               \* the unified table (line 81)
    min_date, max_date, date_range, cities, selected_cities,
    start_date, end_date, filtered_df,
    metrics,          \* lines 131-135
    views,            \* lines 174-235
    \* several sessions of one process (SpecCache)
    releases,         \* the successive contents of the dataset
    version,          \* which of them a download yields now
    lock,             \* the session computing the cache entry, NaN if none
    rpc,              \* where each session's script run is
    began,            \* the version at the start of each session's run
    reading,          \* the version each session's call of the body downloaded
    got,              \* what line 81 returned to each session
    executions,       \* how often the body was entered, by version
    returned,         \* how often the body returned a table
    runs              \* script runs started

\* the variables of one script run
svars == <<first_run, pc, exc, ingest, df, min_date, max_date,
           date_range, cities, selected_cities, start_date, end_date,
           filtered_df, metrics, views>>

\* the variables of the process with its sessions
cvars == <<releases, version, lock, rpc, began, reading, got, executions,
           returned, runs>>

vars == <<dataset, cache, svars, cvars>>

NoIngest == Outcome("none", "", << >>, << >>, << >>, EmptyDf)

\* A session opens on a fresh process: nothing cached, nothing run.
InitRun(ds) ==
    /\ dataset = ds
    /\ cache = NaN
    /\ first_run = TRUE
    /\ pc = "start"
    /\ exc = ""
    /\ ingest = NoIngest
    /\ df = EmptyDf
    /\ min_date = NaN /\ max_date = NaN /\ date_range = NaN
    /\ cities = << >> /\ selected_cities = {}
    /\ start_date = NaN /\ end_date = NaN
    /\ filtered_df = EmptyDf
    /\ metrics = NoMetrics
    /\ views = NoViews
    /\ releases = <<ds>> /\ version = 1 /\ lock = NaN
    /\ rpc = << >> /\ began = << >> /\ reading = << >> /\ got = << >>
    /\ executions = << >> /\ returned = 0 /\ runs = 0

---------------------------------------------------------------------------
(* The script run: one action per section of the script *)

\* line 81 with the decorator of line 17: a cached table is returned without
\* the body running; otherwise the body runs and its table, if it returns
\* one, is cached.
Load ==
    /\ pc = "start"
    /\ IF cache # NaN
       THEN /\ ingest' = Outcome("hit", "", << >>, << >>, << >>, cache[1])
            /\ df' = cache[1]
            /\ pc' = "loaded"
            /\ UNCHANGED <<cache, exc>>
       ELSE LET out == LoadBody(dataset)
            IN /\ ingest' = out
               /\ df' = out.df
               /\ cache' = IF out.status = "ok" THEN <<out.df>> ELSE cache
               /\ pc' = CASE out.status = "ok" -> "loaded"
                          [] out.status = "stop" -> "stopped"
                          [] OTHER -> "error"
               /\ exc' = IF out.status = "raise" THEN out.msg ELSE ""
    /\ UNCHANGED <<dataset, first_run, min_date, max_date, date_range, cities,
                   selected_cities, start_date, end_date, filtered_df,
                   metrics, views>>
    /\ UNCHANGED cvars

\* lines 85-100. An empty table has no minimum date (NaT), which the date
\* picker rejects; a table without a City column raises KeyError at line 99.
Sidebar ==
    /\ pc = "loaded"
    /\ IF df.rows = << >>
       THEN /\ pc' = "error" /\ exc' = "date_input: NaT"
            /\ UNCHANGED <<min_date, max_date, date_range, cities, selected_cities>>
       ELSE /\ min_date' = MinDate(df)
            /\ max_date' = MaxDate(df)
            /\ date_range' \in IF first_run
                               THEN {<<MinDate(df), MaxDate(df)>>}
                               ELSE DateRanges(MinDate(df), MaxDate(df))
            /\ IF "City" \notin df.cols
               THEN /\ pc' = "error" /\ exc' = "KeyError: 'City'"
                    /\ UNCHANGED <<cities, selected_cities>>
               ELSE /\ cities' = SortedCities(df)
                    /\ selected_cities' \in
                           IF first_run
                           THEN {Range(DefaultCities(SortedCities(df)))}
                           ELSE SUBSET Range(SortedCities(df))
                    /\ pc' = "sidebar" /\ exc' = ""
    /\ UNCHANGED <<dataset, cache, first_run, ingest, df, start_date, end_date,
                   filtered_df, metrics, views>>
    /\ UNCHANGED cvars

\* lines 102-120
ApplyFilters ==
    /\ pc = "sidebar"
    /\ start_date' = StartDate(date_range, min_date, max_date)
    /\ end_date' = EndDate(date_range, min_date, max_date)
    /\ filtered_df' = ApplyMask(df, StartDate(date_range, min_date, max_date),
                                EndDate(date_range, min_date, max_date),
                                selected_cities)
    /\ pc' = "filtered"
    /\ UNCHANGED <<dataset, cache, first_run, exc, ingest, df, min_date,
                   max_date, date_range, cities, selected_cities, metrics, views>>
    /\ UNCHANGED cvars

\* lines 128-167
TopMetrics ==
    /\ pc = "filtered"
    /\ IF MetricsRaise(filtered_df)
       THEN /\ pc' = "error" /\ exc' = "KeyError: 0"
            /\ UNCHANGED metrics
       ELSE /\ metrics' = TopMetricsOf(filtered_df)
            /\ pc' = "metrics" /\ exc' = ""
    /\ UNCHANGED <<dataset, cache, first_run, ingest, df, min_date, max_date,
                   date_range, cities, selected_cities, start_date, end_date,
                   filtered_df, views>>
    /\ UNCHANGED cvars

\* lines 171-239
Charts ==
    /\ pc = "metrics"
    /\ IF filtered_df.rows = << >>
       THEN /\ views' = [NoViews EXCEPT !.info = TRUE]
            /\ pc' = "done"
            /\ UNCHANGED <<filtered_df, exc>>
       ELSE LET f == WithDayName(filtered_df)
                drawn == [NoViews EXCEPT !.map = <<DensityMap(filtered_df)>>,
                                         !.trend = <<TrendData(filtered_df)>>,
                                         !.heat = <<HeatmapData(f)>>]
            IN /\ filtered_df' = f
               /\ IF "Involved" \notin filtered_df.cols
                  THEN /\ views' = drawn
                       /\ pc' = "error" /\ exc' = "KeyError: 'Involved'"
                  ELSE /\ \E ranking \in VehCounts(Column(filtered_df, "Involved")) :
                              views' = [drawn EXCEPT !.veh = <<ranking>>]
                       /\ pc' = "done" /\ exc' = ""
    /\ UNCHANGED <<dataset, cache, first_run, ingest, df, min_date, max_date,
                   date_range, cities, selected_cities, start_date, end_date,
                   metrics>>
    /\ UNCHANGED cvars

\* A widget interaction or a reload reruns the script from the top; the
\* process and its cache stay.
Rerun ==
    /\ pc \in {"done", "stopped", "error"}
    /\ pc' = "start"
    /\ first_run' = FALSE
    /\ exc' = ""
    /\ ingest' = NoIngest
    /\ df' = EmptyDf
    /\ min_date' = NaN /\ max_date' = NaN /\ date_range' = NaN
    /\ cities' = << >> /\ selected_cities' = {}
    /\ start_date' = NaN /\ end_date' = NaN
    /\ filtered_df' = EmptyDf
    /\ metrics' = NoMetrics
    /\ views' = NoViews
    /\ UNCHANGED <<dataset, cache>>
    /\ UNCHANGED cvars

\* one script run
NextRun == Load \/ Sidebar \/ ApplyFilters \/ TopMetrics \/ Charts

\* a session: runs and reruns
Next == NextRun \/ Rerun


---------------------------------------------------------------------------
(* Input families *)

\* A file of the directory: csv says whether its name ends in ".csv",
\* parses whether pd.read_csv reads it.
OtherFile == [csv |-> FALSE, parses |-> FALSE, cols |-> {}, rows |-> << >>]

GarbageCsv == [csv |-> TRUE, parses |-> FALSE, cols |-> {}, rows |-> << >>]

\* a row as a file with the columns cols holds it
Project(r, cols) ==
    [c \in DOMAIN r |-> IF c \in AllCols /\ c \notin cols THEN NaN ELSE r[c]]

CsvTable(cols, rows) ==
    [csv |-> TRUE, parses |-> TRUE, cols |-> cols,
     rows |-> MapRows(rows, LAMBDA r : Project(r, cols))]

\* the directory with its files named by position and its rows by file and line
Directory(files) ==
    [i \in DOMAIN files |->
        [name |-> i, csv |-> files[i].csv, parses |-> files[i].parses,
         cols |-> files[i].cols,
         rows |-> [j \in DOMAIN files[i].rows |->
                      [files[i].rows[j] EXCEPT !.id = <<i, j>>]]]]

Downloaded(files) == [downloadOk |-> TRUE, dir |-> Directory(files)]

DownloadFailed == [downloadOk |-> FALSE, dir |-> << >>]

SeqsUpTo(S, n) == UNION {[1..k -> S] : k \in 0..n}

GoodRow == RawRow(Text("makati", "lower", TRUE), <<1, 31, 13>>, <<2, 15, "PM">>,
                  Text("car", "lower", FALSE), Text("collision", "title", FALSE),
                  <<14>>, <<121>>)

\* Spec: directories of up to MaxFiles files, each one not a CSV, an
\* unreadable CSV, or a CSV of one row under one of the column sets.
ColumnSets == {AllCols, AllCols \ {"Time"}, AllCols \ {"City"},
               AllCols \ {"Involved"}, AllCols \ {"Type"},
               RequiredCols \cup {"Time"}}

FileKinds == {OtherFile, GarbageCsv}
             \cup {CsvTable(cols, <<GoodRow>>) : cols \in ColumnSets}

FileDatasets == {DownloadFailed}
                \cup {Downloaded(files) : files \in SeqsUpTo(FileKinds, MaxFiles)}

InitFiles == \E ds \in FileDatasets : InitRun(ds)

Spec == InitFiles /\ [][NextRun]_vars

\* SpecRows: up to MaxRows rows of RowPool in one CSV file of all columns, or
\* split over two with an unreadable or an empty CSV file between them.
RowPool ==
    {GoodRow,
     [GoodRow EXCEPT !.Date = <<2, 30, 0>>],
     [GoodRow EXCEPT !.Date = NaN, !.Time = NaN],
     [GoodRow EXCEPT !.Longitude = NaN, !.City = Text("pasig", "upper", FALSE)],
     [GoodRow EXCEPT !.Latitude = NaN, !.Date = <<2, 1, 0>>],
     [GoodRow EXCEPT !.Time = <<"garbage">>, !.City = NaN, !.Involved = NaN,
                     !.Type = NaN, !.Date = <<2, 1, 0>>],
     [GoodRow EXCEPT !.Time = NaN, !.City = Text("pasig", "title", FALSE),
                     !.Date = <<2, 1, 7>>],
     [GoodRow EXCEPT !.Time = <<12, 5, "AM">>, !.Latitude = NaN, !.Longitude = NaN]}

RowDatasets ==
    UNION {{Downloaded(<<CsvTable(AllCols, rows)>>)}
           \cup {Downloaded(<<CsvTable(AllCols, SubSeq(rows, 1, k)), mid,
                              CsvTable(AllCols, SubSeq(rows, k + 1, Len(rows)))>>) :
                     k \in 0..Len(rows), mid \in {GarbageCsv, CsvTable(AllCols, << >>)}} :
           rows \in SeqsUpTo(RowPool, MaxRows)}

InitRows == \E ds \in RowDatasets : InitRun(ds)

SpecRows == InitRows /\ [][NextRun]_vars


\* SpecHour: one CSV file of one row, its time text any of TimeTexts.
MinuteTexts == {0, 15, 59, 60}

TimeTexts == {NaN, <<"garbage">>}
             \cup {<<h, m, ap>> : h \in 0..MaxHourText, m \in MinuteTexts,
                                  ap \in {"AM", "PM"}}

HourDatasets ==
    {Downloaded(<<CsvTable(AllCols, <<[GoodRow EXCEPT !.Time = t]>>)>>) :
         t \in TimeTexts}

InitHour == \E ds \in HourDatasets : InitRun(ds)

SpecHour == InitHour /\ [][NextRun]_vars

\* SpecSession: one CSV file of all columns holding up to MaxSessionRows
\* rows of SessionPool, every one with a date and coordinates; the script
\* runs and is rerun with any widget values.
SessionPool ==
    {GoodRow,
     RawRow(Text("pasig", "title", FALSE), <<2, 1, 0>>, <<9, 0, "AM">>,
            Text("bus", "lower", FALSE), Text("stalled", "title", FALSE),
            <<15>>, <<120>>),
     RawRow(NaN, <<1, 30, 23>>, <<"garbage">>, NaN, NaN, <<14>>, <<121>>),
     RawRow(Text("makati", "upper", FALSE), <<2, 1, 23>>, <<2, 15, "PM">>,
            Text("bus", "lower", FALSE), Text("collision", "title", FALSE),
            <<14>>, <<120>>),
     RawRow(Text("pasig", "lower", TRUE), <<1, 31, 0>>, NaN,
            Text("car", "lower", FALSE), NaN, <<15>>, <<121>>)}

SessionDatasets ==
    {Downloaded(<<CsvTable(AllCols, rows)>>) :
         rows \in SeqsUpTo(SessionPool, MaxSessionRows)}

InitSession == \E ds \in SessionDatasets : InitRun(ds)

SpecSession == InitSession /\ [][Next]_vars


\* SpecRank: one CSV file whose rows differ in Involved alone: up to
\* MaxKeys values, each on one row or on several. The values come in the
\* order 1, 2, ... of first appearance, under names that are not in that
\* order; the further rows of a value follow, last value first.
CountChoices == {1, 2}

VehicleName(i) == <<"vehicle", (5 * i) % 13, FALSE>>

RECURSIVE Repeats(_, _)
Repeats(counts, i) ==
    IF i = 0 THEN << >>
    ELSE [j \in 1..(counts[i] - 1) |-> i] \o Repeats(counts, i - 1)

RankRows(counts) ==
    LET order == [i \in DOMAIN counts |-> i] \o Repeats(counts, Len(counts))
    IN [j \in DOMAIN order |-> [GoodRow EXCEPT !.Involved = VehicleName(order[j])]]

RankDatasets ==
    {Downloaded(<<CsvTable(AllCols, RankRows(counts))>>) :
         counts \in SeqsUpTo(CountChoices, MaxKeys)}

InitRank == \E ds \in RankDatasets : InitRun(ds)

SpecRank == InitRank /\ [][NextRun]_vars

---------------------------------------------------------------------------
(* st.cache_data around load_and_clean_data with several sessions: line 17 *)

Sessions == 1..MaxSessions

\* The cache is keyed by the function and its arguments; the function takes
\* none, so there is one entry, and the dataset is no part of the key.
CacheMiss(entry) == IsNa(entry)

\* After taking the lock the cache is read again: the value is computed
\* only if no other session has stored it meanwhile.
MustCompute(entry) == CacheMiss(entry)

\* a dataset that loads, another that loads, and two that do not
CacheDatasets ==
    {Downloaded(<<CsvTable(AllCols, <<GoodRow>>)>>),
     Downloaded(<<CsvTable(AllCols, <<GoodRow, GoodRow>>)>>),
     Downloaded(<<GarbageCsv>>),
     Downloaded(<<CsvTable(AllCols \ {"Time"}, <<GoodRow>>)>>)}

InitCache ==
    /\ releases \in [1..MaxVersions -> CacheDatasets]
    /\ \A v \in 1..(MaxVersions - 1) : releases[v] # releases[v + 1]
    /\ version = 1
    /\ dataset = releases[1]
    /\ cache = NaN
    /\ lock = NaN
    /\ rpc = [r \in Sessions |-> "idle"]
    /\ began = [r \in Sessions |-> 0]
    /\ reading = [r \in Sessions |-> 0]
    /\ got = [r \in Sessions |-> NaN]
    /\ executions = [v \in 1..MaxVersions |-> 0]
    /\ returned = 0
    /\ runs = 0
    /\ first_run = TRUE /\ pc = "start" /\ exc = "" /\ ingest = NoIngest
    /\ df = EmptyDf
    /\ min_date = NaN /\ max_date = NaN /\ date_range = NaN
    /\ cities = << >> /\ selected_cities = {}
    /\ start_date = NaN /\ end_date = NaN
    /\ filtered_df = EmptyDf /\ metrics = NoMetrics /\ views = NoViews

\* a session's script run starts and reaches line 81
StartRun(r) ==
    /\ rpc[r] = "idle"
    /\ runs < MaxScriptRuns
    /\ runs' = runs + 1
    /\ rpc' = [rpc EXCEPT ![r] = "call"]
    /\ began' = [began EXCEPT ![r] = version]
    /\ got' = [got EXCEPT ![r] = NaN]
    /\ UNCHANGED <<dataset, cache, svars, releases, version, lock, reading,
                   executions, returned>>

\* the call reads the cache: a hit returns the cached table, a miss goes
\* for the lock
ReadCache(r) ==
    /\ rpc[r] = "call"
    /\ IF CacheMiss(cache)
       THEN /\ rpc' = [rpc EXCEPT ![r] = "miss"]
            /\ UNCHANGED got
       ELSE /\ rpc' = [rpc EXCEPT ![r] = "loaded"]
            /\ got' = [got EXCEPT ![r] = cache]
    /\ UNCHANGED <<dataset, cache, svars, releases, version, lock, began,
                   reading, executions, returned, runs>>

\* the session takes the lock once it is free, and either finds the table
\* stored meanwhile or enters the body, which downloads the dataset
TakeLock(r) ==
    /\ rpc[r] = "miss"
    /\ lock = NaN
    /\ IF MustCompute(cache)
       THEN /\ lock' = <<r>>
            /\ rpc' = [rpc EXCEPT ![r] = "body"]
            /\ reading' = [reading EXCEPT ![r] = version]
            /\ executions' = [executions EXCEPT ![version] = @ + 1]
            /\ UNCHANGED got
       ELSE /\ rpc' = [rpc EXCEPT ![r] = "loaded"]
            /\ got' = [got EXCEPT ![r] = cache]
            /\ UNCHANGED <<lock, reading, executions>>
    /\ UNCHANGED <<dataset, cache, svars, releases, version, began, returned, runs>>

\* the body ends: a table is stored and returned; st.stop or an exception
\* leaves the cache as it is. The lock is released either way.
EndBody(r) ==
    /\ rpc[r] = "body"
    /\ lock' = NaN
    /\ LET out == LoadBody(releases[reading[r]])
       IN IF out.status = "ok"
          THEN /\ cache' = <<out.df>>
               /\ got' = [got EXCEPT ![r] = <<out.df>>]
               /\ returned' = returned + 1
               /\ rpc' = [rpc EXCEPT ![r] = "loaded"]
          ELSE /\ rpc' = [rpc EXCEPT ![r] = "halted"]
               /\ UNCHANGED <<cache, got, returned>>
    /\ UNCHANGED <<dataset, svars, releases, version, began, reading,
                   executions, runs>>

\* the rest of the script runs, or the run has stopped: the session idles
\* until its next interaction
EndRun(r) ==
    /\ rpc[r] \in {"loaded", "halted"}
    /\ rpc' = [rpc EXCEPT ![r] = "idle"]
    /\ UNCHANGED <<dataset, cache, svars, releases, version, lock, began,
                   reading, got, executions, returned, runs>>

\* the dataset on the server changes
ChangeSource ==
    /\ version < MaxVersions
    /\ version' = version + 1
    /\ dataset' = releases[version + 1]
    /\ UNCHANGED <<cache, svars, releases, lock, rpc, began, reading, got,
                   executions, returned, runs>>

NextCache ==
    \/ \E r \in Sessions : StartRun(r)
    \/ \E r \in Sessions : ReadCache(r)
    \/ \E r \in Sessions : TakeLock(r)
    \/ \E r \in Sessions : EndBody(r)
    \/ \E r \in Sessions : EndRun(r)
    \/ ChangeSource

SpecCache == InitCache /\ [][NextCache]_vars

---------------------------------------------------------------------------
(* Properties *)

Ids(d) == [i \in DOMAIN d.rows |-> d.rows[i].id]

\* the row of the downloaded files that a table row comes from
RawOf(r) == dataset.dir[r.id[1]].rows[r.id[2]]

Filtered == start_date # NaN

DaysPerMonth == <<31, 28, 31, 30, 31, 30, 31, 31, 30, 31, 30, 31>>

IsCalendarDate(t) == /\ Len(t) = 3
                     /\ t[1] \in DOMAIN DaysPerMonth
                     /\ t[2] >= 1 /\ t[2] <= DaysPerMonth[t[1]]
                     /\ t[3] >= 0 /\ t[3] < 24

\* calendar dates as day numbers
DayNumber(dt) == 100 * dt[1] + dt[2]

InRange(r) == /\ DayNumber(start_date) <= DayNumber(<<r.Date[1], r.Date[2]>>)
              /\ DayNumber(<<r.Date[1], r.Date[2]>>) <= DayNumber(end_date)

\* C1: the filtered table is exactly the records of the unified table whose
\* calendar date lies in [start_date, end_date], both ends included, and
\* whose city is selected: none outside is in it, none inside is left out.
C1_FilterIsExactSubset ==
    Filtered =>
        Ids(filtered_df) =
            Ids([df EXCEPT !.rows =
                    SelectSeq(@, LAMBDA r : InRange(r) /\ r.City \in selected_cities)])

C1_Witness ==
    /\ Filtered
    /\ \E r \in RowSet(filtered_df) :
           <<r.Date[1], r.Date[2]>> = end_date /\ r.Date[3] > 0
    /\ \E r \in RowSet(df) : ~InRange(r) /\ r.City \in selected_cities
    /\ \E r \in RowSet(df) : InRange(r) /\ r.City \notin selected_cities

RECURSIVE KeptIds(_)
\* the rows of the parsed files, in order, that have a date that parses, a
\* latitude and a longitude
KeptIds(dir) ==
    IF dir = << >> THEN << >>
    ELSE LET f == Head(dir)
             kept == SelectSeq(f.rows, LAMBDA r : /\ IsCalendarDate(r.Date)
                                                  /\ r.Latitude # NaN
                                                  /\ r.Longitude # NaN)
         IN (IF f.csv /\ f.parses THEN [i \in DOMAIN kept |-> kept[i].id] ELSE << >>)
            \o KeptIds(Tail(dir))

\* C2: the unified table holds exactly the rows of the parsed files whose
\* date parses and whose latitude and longitude are present; each has a date,
\* a latitude and a longitude, and a row is kept whatever its time is.
C2_UnifiedTableRows ==
    ingest.status = "ok" =>
        /\ Ids(df) = KeptIds(dataset.dir)
        /\ \A r \in RowSet(df) :
               r.Date # NaN /\ r.Latitude # NaN /\ r.Longitude # NaN

C2_Witness ==
    /\ ingest.status = "ok"
    /\ \E r \in RowSet(df) : r.Time = NaN
    /\ \E i \in DOMAIN dataset.dir :
           \E raw \in Range(dataset.dir[i].rows) :
               raw.id \notin Range(Ids(df))

Discovered == {i \in DOMAIN dataset.dir : dataset.dir[i].csv}

Parsing == {i \in Discovered : dataset.dir[i].parses}

\* ingestion has ended without a table: st.error and st.stop, or an exception
\* that leaves load_and_clean_data
Halted == ingest.status \in {"stop", "raise"}

\* C3: every discovered file that does not parse is warned about and
\* skipped while the others are read; ingestion ends without a table (and
\* then no filter and no aggregate runs) exactly when no CSV file is
\* discovered or none parses.
C3_FileFailuresAbsorbed ==
    pc # "start" =>
        /\ Range(ingest.warnings) = Discovered \ Parsing
        /\ Range(ingest.df_list) = Parsing
        /\ Halted <=> (Discovered = {} \/ Parsing = {})
        /\ Halted =>
               /\ df = EmptyDf /\ cache = NaN
               /\ ~Filtered /\ filtered_df = EmptyDf
               /\ metrics = NoMetrics /\ views = NoViews

C3_Witness ==
    /\ pc = "done"
    /\ \E i \in Discovered \ Parsing : \E j \in Parsing :
           i < j /\ <<j, 1>> \in Range(Ids(df))

\* C4: files that all carry Date, Latitude and Longitude go through
\* ingestion, filter and views without an error whichever of the optional
\* columns they carry, city and involved defaulting to "Unknown".
C4_OptionalColumnsTolerated ==
    /\ pc # "error"
    /\ pc \notin {"start", "stopped"} =>
           \A r \in RowSet(df) : r.City # NaN /\ r.Involved # NaN

Matches12Hour(t) == /\ Len(t) = 3
                    /\ t[1] >= 1 /\ t[1] <= 12
                    /\ t[2] >= 0 /\ t[2] <= 59
                    /\ t[3] = "AM" \/ t[3] = "PM"

Hour24(t) == IF t[3] = "AM" THEN (IF t[1] = 12 THEN 0 ELSE t[1])
             ELSE (IF t[1] = 12 THEN 12 ELSE t[1] + 12)

\* C5: a record's hour is absent exactly when its time text is missing or
\* is no 12-hour "H:MM AM/PM" time, and is otherwise the 24-hour hour of
\* that time, 0..23.
C5_HourOfRecord ==
    ingest.status = "ok" =>
        \A r \in RowSet(df) :
            /\ r.Hour = NaN <=> ~Matches12Hour(RawOf(r).Time)
            /\ r.Hour # NaN => /\ r.Hour = <<Hour24(RawOf(r).Time)>>
                               /\ r.Hour[1] \in 0..23

C5_Witness ==
    /\ ingest.status = "ok"
    /\ \E r \in RowSet(df) : RawOf(r).Time = <<12, 15, "AM">> /\ r.Hour = <<0>>

\* C6: two dates give [first, second]; one date d gives [d, d] and a
\* filtered table of records dated d only; no date gives the span of the
\* unified table's dates, which excludes no record by its date.
C6_DateRangeResolved ==
    Filtered =>
        /\ Len(date_range) = 2 =>
               start_date = date_range[1] /\ end_date = date_range[2]
        /\ Len(date_range) = 1 =>
               /\ start_date = date_range[1] /\ end_date = date_range[1]
               /\ \A r \in RowSet(filtered_df) :
                      <<r.Date[1], r.Date[2]>> = date_range[1]
        /\ Len(date_range) = 0 =>
               /\ \A r \in RowSet(df) :
                      /\ DayNumber(start_date) <= DayNumber(<<r.Date[1], r.Date[2]>>)
                      /\ DayNumber(<<r.Date[1], r.Date[2]>>) <= DayNumber(end_date)
               /\ \E r \in RowSet(df) : <<r.Date[1], r.Date[2]>> = start_date
               /\ \E r \in RowSet(df) : <<r.Date[1], r.Date[2]>> = end_date
               /\ \A r \in RowSet(df) :
                      r.City \in selected_cities => r.id \in Range(Ids(filtered_df))

C6_Witness ==
    /\ Filtered
    /\ Len(date_range) = 1
    /\ filtered_df.rows # << >>
    /\ \E r \in RowSet(df) :
           /\ r.City \in selected_cities
           /\ DayNumber(<<r.Date[1], r.Date[2]>>) > DayNumber(date_range[1])

\* C7: with an empty filtered table, as with no city selected, no step
\* fails: the count is 0, the three other metrics are "N/A", and the map,
\* the trend, the matrix and the ranking are not computed.
C7_EmptyFilterDegrades ==
    Filtered =>
        /\ selected_cities = {} => filtered_df.rows = << >>
        /\ filtered_df.rows = << >> =>
               /\ pc # "error"
               /\ pc \in {"metrics", "done"} =>
                      /\ metrics.total_incidents = 0
                      /\ metrics.top_city = NA
                      /\ metrics.top_incident = NA
                      /\ metrics.peak_hour_str = NA
               /\ pc = "done" =>
                      /\ views.map = NaN /\ views.trend = NaN
                      /\ views.heat = NaN /\ views.veh = NaN

C7_Witness ==
    /\ pc = "done"
    /\ selected_cities = {}
    /\ df.rows # << >>
    /\ filtered_df.rows = << >>
    /\ metrics.peak_hour_str = NA

\* the hours of highest frequency among the records that have one
PeakHours(f) ==
    LET hours == {r.Hour[1] : r \in {x \in RowSet(f) : x.Hour # NaN}}
        n(h) == Cardinality({i \in DOMAIN f.rows : f.rows[i].Hour = <<h>>})
    IN {h \in hours : \A g \in hours : n(g) <= n(h)}

\* C8: the metrics are computed for every filtered table without failing:
\* the count is the number of rows, the top city is one of highest
\* frequency, the peak hour is "N/A" for an empty table and otherwise "H:00"
\* for an hour H of highest frequency, records without an hour not counting.
C8_MetricsNeverFail ==
    Filtered =>
        /\ ~(pc = "error" /\ exc = "KeyError: 0")
        /\ pc \in {"metrics", "done"} =>
               /\ metrics.total_incidents = Len(filtered_df.rows)
               /\ filtered_df.rows = << >> => metrics.peak_hour_str = NA
               /\ filtered_df.rows # << >> =>
                      \E h \in PeakHours(filtered_df) :
                          metrics.peak_hour_str = <<h, ":00">>


InvolvedOf(f) == [i \in DOMAIN f.rows |-> f.rows[i].Involved]

\* the row on which a value of Involved is first met
FirstRow(f, v) == CHOOSE i \in DOMAIN f.rows :
                      /\ f.rows[i].Involved = v
                      /\ \A j \in 1..(i - 1) : f.rows[j].Involved # v

Rows(f, v) == Cardinality({i \in DOMAIN f.rows : f.rows[i].Involved = v})

\* a ranking of the values of Involved: at most TopN entries, one for each
\* value it names, with the value's number of rows, counts descending, no
\* value left out that has more rows than one it names
IsRanking(f, ranking) ==
    /\ Len(ranking) = Min(TopN, Cardinality(Range(InvolvedOf(f))))
    /\ \A i \in DOMAIN ranking :
           /\ ranking[i][1] \in Range(InvolvedOf(f))
           /\ ranking[i][2] = Rows(f, ranking[i][1])
    /\ \A i, j \in DOMAIN ranking :
           i < j => ranking[i][1] # ranking[j][1] /\ ranking[i][2] >= ranking[j][2]
    /\ \A v \in Range(InvolvedOf(f)) \ {ranking[i][1] : i \in DOMAIN ranking} :
           \A i \in DOMAIN ranking : Rows(f, v) <= ranking[i][2]

\* values of equal count stand in the order in which the rows first show them
TiesFirstSeen(f, ranking) ==
    \A i, j \in DOMAIN ranking :
        (i < j /\ ranking[i][2] = ranking[j][2]) =>
            FirstRow(f, ranking[i][1]) < FirstRow(f, ranking[j][1])

TableOf(v) == <<LoadBody(releases[v]).df>>

\* a run that started after the files changed holds the table of the files
\* as they were before
C9_Witness ==
    /\ returned = 1
    /\ \E r \in Sessions :
           /\ rpc[r] = "loaded"
           /\ began[r] > 1
           /\ got[r] = TableOf(1)
           /\ got[r] # TableOf(began[r])
           /\ LoadBody(releases[began[r]]).status = "ok"

\* C9: the body is executed at most once per version of the files that it
\* makes a table of, and a run that starts after the files have changed gets
\* a table rebuilt from the files as they are then or later.
C9_OncePerVersionWithRebuild ==
    /\ \A v \in 1..MaxVersions :
           LoadBody(releases[v]).status = "ok" => executions[v] <= 1
    /\ \A r \in Sessions :
           rpc[r] = "loaded" =>
               \E v \in began[r]..MaxVersions : got[r] = TableOf(v)

=============================================================================
